---- MODULE Spec2Model ----
(***************************************************************************)
(* A model of tensorflow_federated/python/learning (model.py,              *)
(* model_utils.py) and of the helpers exercised by                         *)
(* core/impl/execution_contexts/async_execution_context_test.py.           *)
(*                                                                         *)
(* tf.Variable objects live in a heap (`variables`); a model holds three   *)
(* ordered collections of references into that heap.  A ModelWeights       *)
(* container holds whatever it was constructed with: references to         *)
(* variables (from_model) or plain tensors (from_tff_result).              *)
(***************************************************************************)
EXTENDS Integers, Sequences, FiniteSets, TLC

VARIABLES
  variables,    \* heap of tf.Variable: Seq of [dtype, shape, value, graph]
  models,       \* constructed model objects: Seq of model records
  weights,      \* <<>> or <<container>>: the ModelWeights object held by the caller
  snapshot,     \* history: what the values were when `weights` was built
  outcome,      \* the last call: [op, arg, status]
  updates,      \* number of variable updates performed so far
  graph_stack,  \* TensorFlow's default-graph stack; its top is where variables are created
  model_fn,     \* the class the caller's zero-argument model factory constructs
  call,         \* the call of weights_type_from_model / parameter_count_from_model in progress
  returned,     \* how the last call with an instance, and with a factory, ended
  applied,      \* the last call of a function of its argument alone: [fn, arg, result]
  concrete,     \* <<>> or <<instance>>: the instance of a user-defined Model subclass
  built         \* the last instantiation of a Model subclass: [cls, status]

vars == <<variables, models, weights, snapshot, outcome, updates,
          graph_stack, model_fn, call, returned, applied, concrete, built>>

transferVars == <<weights, snapshot, outcome, updates>>
typeVars == <<graph_stack, model_fn, call, returned>>
pureVars == <<applied>>
metricVars == <<concrete, built>>

----------------------------------------------------------------------------
(* Bounds *)

\* longest total number of weight variables (trainable + non-trainable) of a model
MaxVars == 2
\* number of training steps and forward passes in one run
MaxUpdates == 1

----------------------------------------------------------------------------
(* Tensors, variables, models *)

\* shape/dtype signatures of the tensors in play: a float scalar, an int vector
TensorSpecs ==
  { [dtype |-> "float32", shape |-> <<>>],
    [dtype |-> "int32",   shape |-> <<2>>] }

SeqsUpTo(S, n) == UNION { [1..k -> S] : k \in 0..n }

\* The structure of a model class: what its constructor creates.
\* kind is the Python type the instance answers isinstance to.
ModelClasses ==
  { [kind |-> k, trainable |-> t, non_trainable |-> nt] :
      k \in {"Model", "Keras"},
      t \in SeqsUpTo(TensorSpecs, MaxVars),
      nt \in SeqsUpTo(TensorSpecs, MaxVars) }

WeightClasses == { c \in ModelClasses : Len(c.trainable) + Len(c.non_trainable) <= MaxVars }

\* The variables a constructor creates, in creation order: trainable,
\* non-trainable, then one local (metric accumulator) variable.
NewVariables(cls, init, graph) ==
  [ i \in 1..(Len(cls.trainable) + Len(cls.non_trainable) + 1) |->
      LET nt == Len(cls.trainable)
          nn == Len(cls.non_trainable)
          ts == IF i <= nt THEN cls.trainable[i]
                ELSE IF i <= nt + nn THEN cls.non_trainable[i - nt]
                ELSE [dtype |-> "float32", shape |-> <<>>]
      IN [dtype |-> ts.dtype, shape |-> ts.shape, value |-> init, graph |-> graph] ]

\* The model object whose variables were allocated at heap positions base+1..
NewModel(cls, base) ==
  LET nt == Len(cls.trainable)
      nn == Len(cls.non_trainable)
  IN [ kind |-> cls.kind,
       trainable_variables     |-> [i \in 1..nt |-> base + i],
       non_trainable_variables |-> [i \in 1..nn |-> base + nt + i],
       local_variables         |-> <<base + nt + nn + 1>> ]

\* tf.keras.Model.trainable_weights / non_trainable_weights are the lists that
\* trainable_variables / non_trainable_variables alias.
trainable_weights(model) == model.trainable_variables
non_trainable_weights(model) == model.non_trainable_variables

----------------------------------------------------------------------------
(* The values of the state before anything was called *)

NoSnapshot == [source |-> 0, at |-> 0, trainable |-> <<>>, non_trainable |-> <<>>]
NoOutcome == [op |-> "none", arg |-> [tag |-> "NoneType", ref |-> 0], status |-> "ok"]

NoCall ==
  [pc |-> "idle", fn |-> "", arg |-> [tag |-> "NoneType", ref |-> 0, behaviour |-> ""],
   model |-> 0, raised |-> "", entry_stack |-> <<>>, base |-> 0, base_models |-> 0,
   trace |-> <<>>, invoked_in |-> <<>>]

NoResult ==
  [fn |-> "", status |-> "none", type |-> <<>>,
   count |-> [num_tensors |-> 0, parameters |-> 0, num_unspecified_tensors |-> 0]]
NoneReturned == [instance |-> NoResult, factory |-> NoResult]

NoApplied == [fn |-> "", arg |-> <<>>, result |-> <<>>]
NoBuilt == [cls |-> <<>>, status |-> "none"]

TransferIdle == weights = <<>> /\ snapshot = NoSnapshot /\ outcome = NoOutcome /\ updates = 0
TypeIdle == call = NoCall /\ returned = NoneReturned
PureIdle == applied = NoApplied
MetricIdle == concrete = <<>> /\ built = NoBuilt

----------------------------------------------------------------------------
(* Arguments a caller may pass *)

NonModelTags == {"NoneType", "function"}

Args == { [tag |-> "model", ref |-> i] : i \in 1..2 }
        \cup { [tag |-> t, ref |-> 0] : t \in NonModelTags }

\* type(x) as isinstance sees it
TypeOf(ms, x) == IF x.tag = "model" THEN ms[x.ref].kind ELSE x.tag

\* py_typecheck.check_type: TRUE when it returns, FALSE when it raises TypeError
check_type(type, accepted) == type \in accepted

\* model_lib.Model: what weights_type_from_model accepts
ModelOnly == {"Model"}

ModelOrKeras_without_keras == {"Model"}

\* (model_lib.Model, tf.keras.Model): what from_model and assign_weights_to accept
ModelOrKeras == {"Model", "Keras"}

----------------------------------------------------------------------------
(* ModelWeights *)

\* an element of a container: a reference to a variable, or a plain tensor
Handle(id) == [ref |-> id, dtype |-> "", shape |-> <<>>, value |-> 0]
Tensor(dtype, shape, value) == [ref |-> 0, dtype |-> dtype, shape |-> shape, value |-> value]

\* what reading an element yields now
Read(heap, e) ==
  IF e.ref # 0
    THEN Tensor(heap[e.ref].dtype, heap[e.ref].shape, heap[e.ref].value)
    ELSE e

ModelWeights(trainable, non_trainable) ==
  [trainable |-> trainable, non_trainable |-> non_trainable]

from_model_swapped(model) ==
  ModelWeights([i \in DOMAIN model.non_trainable_variables |-> Handle(model.non_trainable_variables[i])],
               [i \in DOMAIN model.trainable_variables |-> Handle(model.trainable_variables[i])])

\* cls(model.trainable_variables, model.non_trainable_variables)
from_model(model) ==
  ModelWeights([i \in DOMAIN model.trainable_variables |-> Handle(model.trainable_variables[i])],
               [i \in DOMAIN model.non_trainable_variables |-> Handle(model.non_trainable_variables[i])])

\* var.assign(t) for the pairs i.. of two equally long lists, in order; an
\* assignment whose dtype or shape does not match raises and ends the loop,
\* the earlier assignments staying done.
RECURSIVE AssignEach(_, _, _, _)
AssignEach(heap, targets, sources, i) ==
  IF i > Len(targets)
    THEN [heap |-> heap, ok |-> TRUE]
    ELSE LET t == Read(heap, sources[i])
             v == heap[targets[i]]
         IN IF t.dtype = v.dtype /\ t.shape = v.shape
              THEN AssignEach([heap EXCEPT ![targets[i]].value = t.value],
                              targets, sources, i + 1)
              ELSE [heap |-> heap, ok |-> FALSE]

\* tf.nest.map_structure(lambda var, t: var.assign(t), targets, sources):
\* the two structures are compared first, then the function is applied.
map_structure_assign(heap, targets, sources) ==
  IF Len(targets) # Len(sources)
    THEN [heap |-> heap, ok |-> FALSE]
    ELSE AssignEach(heap, targets, sources, 1)

assign_weights_to_trainable_only(heap, w, model) ==
  LET r == map_structure_assign(heap, model.trainable_variables, w.trainable)
  IN [heap |-> r.heap, status |-> IF r.ok THEN "ok" ELSE "ValueError"]

assign_weights_to_non_trainable_first(heap, w, model) ==
  LET r1 == map_structure_assign(heap, model.non_trainable_variables, w.non_trainable)
      r2 == map_structure_assign(r1.heap, model.trainable_variables, w.trainable)
  IN IF ~r1.ok THEN [heap |-> r1.heap, status |-> "ValueError"]
     ELSE [heap |-> r2.heap, status |-> IF r2.ok THEN "ok" ELSE "ValueError"]

\* ModelWeights.assign_weights_to, after its type check
assign_weights_to(heap, w, model) ==
  LET tv  == IF model.kind = "Keras" THEN trainable_weights(model)
             ELSE model.trainable_variables
      ntv == IF model.kind = "Keras" THEN non_trainable_weights(model)
             ELSE model.non_trainable_variables
      r1  == map_structure_assign(heap, tv, w.trainable)
      r2  == map_structure_assign(r1.heap, ntv, w.non_trainable)
  IN IF ~r1.ok THEN [heap |-> r1.heap, status |-> "ValueError"]
     ELSE [heap |-> r2.heap, status |-> IF r2.ok THEN "ok" ELSE "ValueError"]

ValuesOf(heap, ids) == [i \in DOMAIN ids |-> heap[ids[i]].value]

----------------------------------------------------------------------------
(* Type descriptors *)

\* a tff.TensorType as an unnamed element of a struct type
TensorType(dtype, shape) == [name |-> "", dtype |-> dtype, shape |-> shape]

TensorTypes(heap, elems) ==
  [i \in DOMAIN elems |-> TensorType(Read(heap, elems[i]).dtype, Read(heap, elems[i]).shape)]

\* type_conversions.type_from_tensors of a ModelWeights: a struct type with
\* the container's attributes as named fields, in attribute order
type_from_tensors(heap, w) ==
  << [name |-> "trainable",     type |-> TensorTypes(heap, w.trainable)],
     [name |-> "non_trainable", type |-> TensorTypes(heap, w.non_trainable)] >>

\* attribute access on a struct type: struct_type.<name>
Field(struct_type, name) ==
  struct_type[CHOOSE i \in DOMAIN struct_type : struct_type[i].name = name].type

RECURSIVE num_elements(_)
num_elements(shape) ==
  IF shape = <<>> THEN 1 ELSE Head(shape) * num_elements(Tail(shape))

RECURSIVE SumElements(_)
SumElements(types) ==
  IF types = <<>> THEN 0 ELSE num_elements(Head(types).shape) + SumElements(Tail(types))

\* type_analysis.count_tensors_in_type of a struct of tensor types
count_tensors_in_type(types) ==
  [num_tensors |-> Len(types), parameters |-> SumElements(types), num_unspecified_tensors |-> 0]

weights_type_trainable_twice(heap, model) ==
  << [name |-> "trainable",     type |-> TensorTypes(heap, from_model(model).trainable)],
     [name |-> "non_trainable", type |-> TensorTypes(heap, from_model(model).trainable)] >>

\* type_conversions.type_from_tensors(ModelWeights.from_model(model))
weights_type(heap, model) == type_from_tensors(heap, from_model(model))

counted_all_weights(type) == Field(type, "trainable") \o Field(type, "non_trainable")

\* trainable_weights_type = weights_type.trainable
trainable_weights_type(type) == Field(type, "trainable")

----------------------------------------------------------------------------
(* weights_type_from_model and parameter_count_from_model *)

\* what a caller passes: the constructed instance models[1], or a zero-argument
\* callable that constructs model_fn, that raises part-way through the
\* construction, or that returns None
TypeArgs ==
  { [tag |-> "model", ref |-> 1, behaviour |-> "instance"] }
  \cup { [tag |-> "function", ref |-> 0, behaviour |-> b] :
            b \in {"returns", "raises", "returns_none"} }

\* callable(model): functions are, and a Keras model is (it defines __call__)
callable(ms, x) == check_type(TypeOf(ms, x), {"function", "Keras"})

\* the slot of `returned` a call's result is remembered in
Slot(x) == IF x.tag = "function" THEN "factory" ELSE "instance"

\* tf.Graph(): a graph object distinct from every graph on the stack
FreshGraph(stack) == 1 + Len(stack)

\* entering `with tf.Graph().as_default():`
enter_scope(stack) == Append(stack, FreshGraph(stack))

exit_scope_unless_raised(stack, raised) ==
  IF raised # "" THEN stack ELSE SubSeq(stack, 1, Len(stack) - 1)

\* leaving the `with` block, by return or by exception
exit_scope(stack, raised) == SubSeq(stack, 1, Len(stack) - 1)

\* One model instance exists in the global graph, and a model factory whose
\* model has the instance's trainable structure and any non-trainable
\* structure; the caller may itself be inside a graph scope.
InitType ==
  \E c1 \in WeightClasses, c2 \in WeightClasses, depth \in 1..2 :
    /\ c2.kind = "Model"
    /\ c2.trainable = c1.trainable
    /\ variables = NewVariables(c1, 1, 0)
    /\ models = <<NewModel(c1, 0)>>
    /\ graph_stack = [i \in 1..depth |-> i - 1]
    /\ model_fn = c2
    /\ TransferIdle /\ TypeIdle /\ PureIdle /\ MetricIdle

\* the call begins: lines 87-90, up to and including entering the scope
Call(fn, x) ==
  /\ call.pc = "idle"
  /\ call' = [NoCall EXCEPT !.fn = fn, !.arg = x,
                            !.entry_stack = graph_stack,
                            !.base = Len(variables), !.base_models = Len(models),
                            !.pc = IF callable(models, x) THEN "in_scope" ELSE "check",
                            !.model = IF callable(models, x) THEN 0 ELSE x.ref,
                            !.trace = IF callable(models, x) THEN <<"enter">> ELSE <<>>]
  /\ graph_stack' = IF callable(models, x) THEN enter_scope(graph_stack) ELSE graph_stack
  /\ UNCHANGED <<variables, models, model_fn, returned, transferVars, pureVars, metricVars>>

\* model = model(): line 91.  The variables the callable creates belong to the
\* graph on top of the stack.
Invoke ==
  /\ call.pc = "in_scope"
  /\ LET g == graph_stack[Len(graph_stack)]
         b == call.arg.behaviour
         partial == [model_fn EXCEPT !.non_trainable = <<>>]
         step == [call EXCEPT !.trace = Append(@, "invoke"), !.invoked_in = Append(@, g)]
     IN \/ /\ b = "returns"
           /\ variables' = variables \o NewVariables(model_fn, 0, g)
           /\ models' = Append(models, NewModel(model_fn, Len(variables)))
           /\ call' = [step EXCEPT !.pc = "constructed", !.model = Len(models) + 1]
        \/ /\ b = "returns_none"
           /\ call' = [step EXCEPT !.pc = "constructed", !.model = 0]
           /\ UNCHANGED <<variables, models>>
        \/ /\ b = "raises"
           /\ variables' = variables \o NewVariables(partial, 0, g)
           /\ call' = [step EXCEPT !.pc = "unwinding", !.raised = "RuntimeError"]
           /\ UNCHANGED models
        \/ /\ b = "instance"   \* a Keras model called without its inputs
           /\ call' = [step EXCEPT !.pc = "unwinding", !.raised = "TypeError"]
           /\ UNCHANGED <<variables, models>>
  /\ UNCHANGED <<graph_stack, model_fn, returned, transferVars, pureVars, metricVars>>

\* the `with` block is left: line 90's __exit__
ExitScope ==
  /\ call.pc \in {"constructed", "unwinding"}
  /\ graph_stack' = exit_scope(graph_stack, call.raised)
  /\ IF call.raised # ""
       THEN /\ call' = [call EXCEPT !.pc = "done", !.trace = Append(@, "exit")]
            /\ returned' = [returned EXCEPT ![Slot(call.arg)] =
                               [NoResult EXCEPT !.fn = call.fn, !.status = call.raised]]
       ELSE /\ call' = [call EXCEPT !.pc = "check", !.trace = Append(@, "exit")]
            /\ UNCHANGED returned
  /\ UNCHANGED <<variables, models, model_fn, transferVars, pureVars, metricVars>>

\* lines 92-93, and lines 101-104 for parameter_count_from_model
CheckAndReturn ==
  /\ call.pc = "check"
  /\ LET type == IF call.model = 0 THEN "NoneType" ELSE models[call.model].kind
         wt == weights_type(variables, models[call.model])
     IN IF ~check_type(type, ModelOnly)
          THEN /\ call' = [call EXCEPT !.pc = "done", !.raised = "TypeError"]
               /\ returned' = [returned EXCEPT ![Slot(call.arg)] =
                                  [NoResult EXCEPT !.fn = call.fn, !.status = "TypeError"]]
          ELSE /\ call' = [call EXCEPT !.pc = "done"]
               /\ returned' = [returned EXCEPT ![Slot(call.arg)] =
                                  [fn |-> call.fn, status |-> "ok", type |-> wt,
                                   count |-> IF call.fn = "parameter_count_from_model"
                                               THEN count_tensors_in_type(trainable_weights_type(wt))
                                               ELSE NoResult.count]]
  /\ UNCHANGED <<variables, models, graph_stack, model_fn, transferVars, pureVars, metricVars>>

\* the caller has the result; the model built for the call is unreferenced
Return ==
  /\ call.pc = "done"
  /\ call' = NoCall
  /\ variables' = SubSeq(variables, 1, call.base)
  /\ models' = SubSeq(models, 1, call.base_models)
  /\ UNCHANGED <<graph_stack, model_fn, returned, transferVars, pureVars, metricVars>>

NextType ==
  \/ \E fn \in {"weights_type_from_model", "parameter_count_from_model"}, x \in TypeArgs :
       Call(fn, x)
  \/ Invoke
  \/ ExitScope
  \/ CheckAndReturn
  \/ Return

SpecType == InitType /\ [][NextType]_vars

----------------------------------------------------------------------------
(* Properties of weights_type_from_model and parameter_count_from_model *)

SpecsOf(heap, ids) == [i \in DOMAIN ids |-> [dtype |-> heap[ids[i]].dtype, shape |-> heap[ids[i]].shape]]

Range(seq) == { seq[i] : i \in DOMAIN seq }

\* the factory's model is equivalent to the instance: same weight structure
FactoryEquivalent ==
  /\ model_fn.trainable = SpecsOf(variables, models[1].trainable_variables)
  /\ model_fn.non_trainable = SpecsOf(variables, models[1].non_trainable_variables)

\* the struct type `fields` has exactly the named fields trainable and
\* non_trainable, holding the dtype and shape of the given variables in order
IsSignature(fields, heap, model) ==
  /\ Len(fields) = 2
  /\ fields[1].name = "trainable"
  /\ fields[2].name = "non_trainable"
  /\ Len(fields[1].type) = Len(model.trainable_variables)
  /\ Len(fields[2].type) = Len(model.non_trainable_variables)
  /\ \A i \in DOMAIN fields[1].type :
       /\ fields[1].type[i].dtype = heap[model.trainable_variables[i]].dtype
       /\ fields[1].type[i].shape = heap[model.trainable_variables[i]].shape
  /\ \A i \in DOMAIN fields[2].type :
       /\ fields[2].type[i].dtype = heap[model.non_trainable_variables[i]].dtype
       /\ fields[2].type[i].shape = heap[model.non_trainable_variables[i]].shape

\* C4: weights_type_from_model of a factory returns the descriptor that
\* weights_type_from_model of a constructed instance of an equivalent model
\* returns, and that descriptor is the shape/dtype signature of
\* ModelWeights.from_model(m) under the field names trainable, non_trainable.
C4_FactoryTypeEqualsInstanceType ==
  (returned.instance.status = "ok" /\ returned.factory.status = "ok" /\ FactoryEquivalent) =>
    /\ returned.factory.type = returned.instance.type
    /\ IsSignature(returned.instance.type, variables, models[1])

\* both calls have returned for equivalent models that have weights of both
\* kinds, with different signatures
C4_Witness ==
  /\ returned.instance.status = "ok"
  /\ returned.factory.status = "ok"
  /\ returned.factory.fn = "weights_type_from_model"
  /\ returned.instance.fn = "weights_type_from_model"
  /\ FactoryEquivalent
  /\ Len(model_fn.trainable) = 1
  /\ Len(model_fn.non_trainable) = 1
  /\ model_fn.trainable # model_fn.non_trainable

Occurrences(seq, x) == Cardinality({ i \in DOMAIN seq : seq[i] = x })

\* the graphs whose scope is the isolated one of the call in progress
ScopeActive == graph_stack = enter_scope(call.entry_stack)

\* C5: given a callable, weights_type_from_model invokes it exactly once and
\* only inside the isolated scope, which is entered right before and left
\* right after that call; however the call ends (return, the callable
\* raising, a later type error) the default-graph stack is the caller's
\* again and none of the caller's graphs holds a variable the callable created.
C5_ScopedConstruction ==
  /\ call.pc # "idle" =>
       (ScopeActive <=> call.pc \in {"in_scope", "constructed", "unwinding"})
  /\ \A g \in Range(call.invoked_in) : g \notin Range(call.entry_stack)
  /\ call.pc \in {"check", "done"} =>
       /\ graph_stack = call.entry_stack
       /\ \A id \in DOMAIN variables :
            id > call.base => variables[id].graph \notin Range(call.entry_stack)
       /\ IF callable(models, call.arg)
            THEN /\ SubSeq(call.trace, 1, 3) = <<"enter", "invoke", "exit">>
                 /\ Occurrences(call.trace, "invoke") = 1
            ELSE call.trace = <<>>

\* the factory raised after creating variables, inside a caller's own scope,
\* and the call has ended
C5_WitnessFactoryRaised ==
  /\ call.pc = "done"
  /\ call.arg.behaviour = "raises"
  /\ call.raised = "RuntimeError"
  /\ Len(variables) > call.base
  /\ Len(call.entry_stack) = 2

\* the number of scalar parameters of the variables `ids`
ParametersOf(heap, ids) ==
  LET shapes == [i \in DOMAIN ids |-> heap[ids[i]]]
  IN SumElements(shapes)

ClassParameters(specs) == SumElements(specs)

CountedOk(r) == r.fn = "parameter_count_from_model" /\ r.status = "ok"

\* C7: parameter_count_from_model counts the tensors and scalar parameters
\* of the trainable variables only: two models that differ only in their
\* non-trainable variables get the same count, and a model with one trainable
\* scalar and one non-trainable scalar has 1 trainable parameter.
C7_CountsTrainableOnly ==
  /\ CountedOk(returned.instance) =>
       /\ returned.instance.count.parameters
            = ParametersOf(variables, models[1].trainable_variables)
       /\ returned.instance.count.num_tensors = Len(models[1].trainable_variables)
       /\ ( /\ SpecsOf(variables, models[1].trainable_variables) = <<[dtype |-> "float32", shape |-> <<>>]>>
            /\ SpecsOf(variables, models[1].non_trainable_variables) = <<[dtype |-> "float32", shape |-> <<>>]>> )
          => returned.instance.count.parameters = 1
  /\ CountedOk(returned.factory) =>
       /\ returned.factory.count.parameters = ClassParameters(model_fn.trainable)
       /\ returned.factory.count.num_tensors = Len(model_fn.trainable)
  /\ (CountedOk(returned.instance) /\ CountedOk(returned.factory)) =>
       returned.instance.count = returned.factory.count

\* the scenario's model has been counted, and so has a model with the same
\* trainable scalar and no non-trainable variable
C7_WitnessScenario ==
  /\ CountedOk(returned.instance)
  /\ CountedOk(returned.factory)
  /\ SpecsOf(variables, models[1].trainable_variables) = <<[dtype |-> "float32", shape |-> <<>>]>>
  /\ SpecsOf(variables, models[1].non_trainable_variables) = <<[dtype |-> "float32", shape |-> <<>>]>>
  /\ model_fn.non_trainable = <<>>
  /\ returned.instance.count.parameters = 1

----------------------------------------------------------------------------
(* Weight transfer between two models *)

\* Two models m (values 1) and m2 (values 0) of any two classes exist in the
\* global graph; no container has been built.
InitPair(c1, c2) ==
  LET v1 == NewVariables(c1, 1, 0)
      v2 == NewVariables(c2, 0, 0)
  IN /\ variables = v1 \o v2
     /\ models = <<NewModel(c1, 0), NewModel(c2, Len(v1))>>
     /\ graph_stack = <<0>>
     /\ model_fn = c2
     /\ TransferIdle /\ TypeIdle /\ PureIdle /\ MetricIdle

Init == \E c1 \in WeightClasses, c2 \in WeightClasses : InitPair(c1, c2)

\* The two models have the same weight structure, as two models built by one
\* model function have.
InitTwin ==
  \E c1 \in WeightClasses, c2 \in WeightClasses :
    /\ c2.trainable = c1.trainable
    /\ c2.non_trainable = c1.non_trainable
    /\ InitPair(c1, c2)

\* w = ModelWeights.from_model(x)
FromModel(x) ==
  /\ IF check_type(TypeOf(models, x), ModelOrKeras)
       THEN /\ weights' = <<from_model(models[x.ref])>>
            /\ snapshot' = [source |-> x.ref, at |-> updates,
                            trainable |-> ValuesOf(variables, models[x.ref].trainable_variables),
                            non_trainable |-> ValuesOf(variables, models[x.ref].non_trainable_variables)]
            /\ outcome' = [op |-> "from_model", arg |-> x, status |-> "ok"]
       ELSE /\ outcome' = [op |-> "from_model", arg |-> x, status |-> "TypeError"]
            /\ UNCHANGED <<weights, snapshot>>
  /\ UNCHANGED <<variables, models, updates, typeVars, pureVars, metricVars>>

\* every variable of `ids` moves to its next value
Bump(heap, ids) ==
  [id \in DOMAIN heap |->
     IF \E i \in DOMAIN ids : ids[i] = id
       THEN [heap[id] EXCEPT !.value = @ + 1]
       ELSE heap[id]]

\* Model.forward_pass: updates the local (metric) variables, and when
\* `stats` the updated-not-learned parameters (BatchNorm means and variances);
\* never the trainable variables.
forward_pass(heap, model, stats) ==
  Bump(heap, model.local_variables
             \o (IF stats THEN model.non_trainable_variables ELSE <<>>))

ForwardPass(i, stats) ==
  /\ updates < MaxUpdates
  /\ variables' = forward_pass(variables, models[i], stats)
  /\ updates' = updates + 1
  /\ outcome' = [op |-> "forward_pass", arg |-> [tag |-> "model", ref |-> i], status |-> "ok"]
  /\ UNCHANGED <<models, weights, snapshot, typeVars, pureVars, metricVars>>

\* the training loop applies an update to the trainable variables of a model
TrainStep(i) ==
  /\ updates < MaxUpdates
  /\ models[i].trainable_variables # <<>>
  /\ variables' = Bump(variables, models[i].trainable_variables)
  /\ updates' = updates + 1
  /\ outcome' = [op |-> "train_step", arg |-> [tag |-> "model", ref |-> i], status |-> "ok"]
  /\ UNCHANGED <<models, weights, snapshot, typeVars, pureVars, metricVars>>

\* w.assign_weights_to(x)
AssignWeightsTo(x) ==
  /\ weights # <<>>
  /\ IF check_type(TypeOf(models, x), ModelOrKeras)
       THEN LET r == assign_weights_to(variables, weights[1], models[x.ref])
            IN /\ variables' = r.heap
               /\ outcome' = [op |-> "assign_weights_to", arg |-> x, status |-> r.status]
       ELSE /\ outcome' = [op |-> "assign_weights_to", arg |-> x, status |-> "TypeError"]
            /\ UNCHANGED variables
  /\ UNCHANGED <<models, weights, snapshot, updates, typeVars, pureVars, metricVars>>

Next ==
  \/ \E x \in Args : FromModel(x)
  \/ \E i \in DOMAIN models, stats \in BOOLEAN : ForwardPass(i, stats)
  \/ \E i \in DOMAIN models : TrainStep(i)
  \/ \E x \in Args : AssignWeightsTo(x)

Spec == Init /\ [][Next]_vars

SpecTwin == InitTwin /\ [][Next]_vars

\* Containers are built and assigned between two models of any two classes,
\* with no training in between.
NextAssign ==
  \/ \E x \in Args : FromModel(x)
  \/ \E x \in Args : AssignWeightsTo(x)

SpecAssign == Init /\ [][NextAssign]_vars

----------------------------------------------------------------------------
(* Properties of the weight transfer *)

\* same count, shape, dtype and order in both weight collections
StructurallyIdentical(a, b) ==
  /\ SpecsOf(variables, a.trainable_variables) = SpecsOf(variables, b.trainable_variables)
  /\ SpecsOf(variables, a.non_trainable_variables) = SpecsOf(variables, b.non_trainable_variables)

\* the container built from model m has just been assigned to another,
\* structurally identical model m2
Transferred ==
  /\ outcome.op = "assign_weights_to"
  /\ outcome.status = "ok"
  /\ snapshot.source # 0
  /\ snapshot.source # outcome.arg.ref
  /\ StructurallyIdentical(models[snapshot.source], models[outcome.arg.ref])

\* C1 as stated: after w = from_model(m) and w.assign_weights_to(m2), with m2
\* structurally identical to m, every trainable and non-trainable variable of
\* m2 equals the value m's variable had when from_model was called, whatever
\* happened in between.
C1_TargetEqualsCaptureTime ==
  Transferred =>
    /\ ValuesOf(variables, models[outcome.arg.ref].trainable_variables) = snapshot.trainable
    /\ ValuesOf(variables, models[outcome.arg.ref].non_trainable_variables) = snapshot.non_trainable

\* C1 amended: m2's variables equal the values m's variables hold when
\* assign_weights_to runs (the container holds m's variables, not copies);
\* these are the capture-time values when no update came in between.
C1_TargetEqualsSourceAtAssign ==
  Transferred =>
    /\ ValuesOf(variables, models[outcome.arg.ref].trainable_variables)
         = ValuesOf(variables, models[snapshot.source].trainable_variables)
    /\ ValuesOf(variables, models[outcome.arg.ref].non_trainable_variables)
         = ValuesOf(variables, models[snapshot.source].non_trainable_variables)
    /\ snapshot.at = updates =>
         /\ ValuesOf(variables, models[outcome.arg.ref].trainable_variables) = snapshot.trainable
         /\ ValuesOf(variables, models[outcome.arg.ref].non_trainable_variables) = snapshot.non_trainable

\* a transfer between two different models, both collections non-empty, with
\* the source trained between capture and assignment
C1_Witness ==
  /\ Transferred
  /\ snapshot.source # outcome.arg.ref
  /\ models[snapshot.source].trainable_variables # <<>>
  /\ models[snapshot.source].non_trainable_variables # <<>>
  /\ snapshot.trainable # ValuesOf(variables, models[snapshot.source].trainable_variables)

\* C2: the container from_model(m) returns lists m's trainable variables in
\* m.trainable_variables' length and order, m's non-trainable variables in
\* m.non_trainable_variables' length and order, and no local variable of m.
C2_FromModelKeepsOrder ==
  (outcome.op = "from_model" /\ outcome.status = "ok") =>
    LET m == models[outcome.arg.ref]
        w == weights[1]
    IN /\ Len(w.trainable) = Len(m.trainable_variables)
       /\ \A i \in DOMAIN w.trainable : w.trainable[i].ref = m.trainable_variables[i]
       /\ Len(w.non_trainable) = Len(m.non_trainable_variables)
       /\ \A i \in DOMAIN w.non_trainable : w.non_trainable[i].ref = m.non_trainable_variables[i]
       /\ \A l \in DOMAIN m.local_variables :
            /\ \A i \in DOMAIN w.trainable : w.trainable[i].ref # m.local_variables[l]
            /\ \A i \in DOMAIN w.non_trainable : w.non_trainable[i].ref # m.local_variables[l]

\* from_model has returned for a model with two trainable variables of
\* different signatures
C2_Witness ==
  /\ outcome.op = "from_model"
  /\ outcome.status = "ok"
  /\ Len(weights[1].trainable) = 2
  /\ variables[weights[1].trainable[1].ref].dtype # variables[weights[1].trainable[2].ref].dtype

\* C6: from_model fails with a type error, leaving the caller without a new
\* container, exactly for the arguments that are neither a Model nor a Keras
\* model; for those two kinds it returns a container.
C6_FromModelTypeError ==
  [][ outcome'.op = "from_model" =>
        IF TypeOf(models, outcome'.arg) \in {"Model", "Keras"}
          THEN outcome'.status = "ok" /\ weights' # <<>> /\ snapshot'.source = outcome'.arg.ref
          ELSE outcome'.status = "TypeError" /\ weights' = weights ]_vars

\* from_model has raised on a non-model while a container from an earlier
\* call exists, and has accepted a Keras model
C6_WitnessRejected ==
  /\ outcome.op = "from_model"
  /\ outcome.status = "TypeError"
  /\ outcome.arg.tag = "function"
  /\ weights # <<>>
  /\ models[snapshot.source].kind = "Keras"

----------------------------------------------------------------------------
(* ModelWeights.from_tff_result *)

\* largest element of a tensor in an input
MaxElem == 1

ElementNames == {"", "kernel"}

InputTensors ==
  { Tensor(ts.dtype, ts.shape, v) : ts \in TensorSpecs, v \in 0..MaxElem }

\* a structure.Struct of tensors: its names and its values, position by position
StructsOfLen(k) ==
  { [names |-> n, values |-> v] : n \in [1..k -> ElementNames], v \in [1..k -> InputTensors] }

\* the results the aggregation system hands back: kt trainable and knt
\* non-trainable values
TffResults(kt, knt) ==
  { [type |-> "Struct", trainable |-> t, non_trainable |-> nt] :
      t \in StructsOfLen(kt), nt \in StructsOfLen(knt) }

\* results of at most MaxVars values, and two values that are no Struct
TffInputs ==
  UNION { TffResults(p[1], p[2]) :
            p \in { q \in (0..MaxVars) \X (0..MaxVars) : q[1] + q[2] <= MaxVars } }
  \cup { [type |-> t, trainable |-> [names |-> <<>>, values |-> <<>>],
          non_trainable |-> [names |-> <<>>, values |-> <<>>]] : t \in {"dict", "NoneType"} }

\* structure.iter_elements: the (name, value) pairs of a Struct in declared order
iter_elements(struct) ==
  [i \in DOMAIN struct.values |-> <<struct.names[i], struct.values[i]>>]

from_tff_result_reversed(struct) ==
  LET t  == iter_elements(struct.trainable)
      nt == iter_elements(struct.non_trainable)
  IN ModelWeights([i \in DOMAIN t |-> t[Len(t) + 1 - i][2]],
                  [i \in DOMAIN nt |-> nt[Len(nt) + 1 - i][2]])

\* [value for _, value in structure.iter_elements(struct.<field>)] for both fields
from_tff_result(struct) ==
  LET t  == iter_elements(struct.trainable)
      nt == iter_elements(struct.non_trainable)
  IN ModelWeights([i \in DOMAIN t |-> t[i][2]], [i \in DOMAIN nt |-> nt[i][2]])

FromTffResult(struct) ==
  /\ applied = NoApplied
  /\ applied' =
       IF check_type(struct.type, {"Struct"})
         THEN [fn |-> "from_tff_result", arg |-> struct,
               result |-> [status |-> "ok", value |-> from_tff_result(struct)]]
         ELSE [fn |-> "from_tff_result", arg |-> struct,
               result |-> [status |-> "TypeError", value |-> ModelWeights(<<>>, <<>>)]]
  /\ UNCHANGED <<variables, models, transferVars, typeVars, metricVars>>

----------------------------------------------------------------------------
(* async_execution_context._is_retryable_error and ._unwrap *)

\* longest tensor, and longest list of tensors, unwrapped
MaxLen == 2

\* Python values by their type and the classes they are instances of
PyValues ==
  { [type |-> "RetryableError",  bases |-> {"RetryableError", "Exception", "object"}],
    [type |-> "RetryableErrorSubclass",
                                 bases |-> {"RetryableErrorSubclass", "RetryableError", "Exception", "object"}],
    [type |-> "TypeError",       bases |-> {"TypeError", "Exception", "object"}],
    [type |-> "int",             bases |-> {"int", "object"}],
    [type |-> "str",             bases |-> {"str", "object"}],
    [type |-> "NoneType",        bases |-> {"NoneType", "object"}] }

isinstance(x, class) == class \in x.bases

is_retryable_error_any_exception(exception) == isinstance(exception, "Exception")

\* async_execution_context._is_retryable_error
is_retryable_error(exception) == isinstance(exception, "RetryableError")

IsRetryableError(x) ==
  /\ applied = NoApplied
  /\ applied' = [fn |-> "_is_retryable_error", arg |-> x,
                 result |-> [status |-> "ok", value |-> is_retryable_error(x)]]
  /\ UNCHANGED <<variables, models, transferVars, typeVars, metricVars>>

\* values handed to _unwrap: kind says which of the fields are meaningful
TfTensor(dtype, elems) ==
  [kind |-> "Tensor", dtype |-> dtype,
   shape |-> IF Len(elems) = 1 THEN <<>> ELSE <<Len(elems)>>,
   elems |-> elems, items |-> <<>>]
PyList(items) == [kind |-> "list", dtype |-> "", shape |-> <<>>, elems |-> <<>>, items |-> items]
PyInt(n) == [kind |-> "int", dtype |-> "", shape |-> <<>>, elems |-> <<n>>, items |-> <<>>]

\* tf.constant(x) for a number and for a list of two or more numbers
TensorInputs ==
  { TfTensor(d, e) : d \in {"int32", "float32"},
                     e \in UNION { [1..k -> 0..MaxElem] : k \in 1..MaxLen } }

ScalarTensorInputs == { t \in TensorInputs : t.shape = <<>> }

UnwrapInputs ==
  TensorInputs
  \cup { PyList(l) : l \in UNION { [1..k -> ScalarTensorInputs] : k \in 0..MaxLen } }
  \cup { PyInt(n) : n \in 0..MaxElem }

unwrap_tensor(value) ==
  IF Len(value.elems) = 1
    THEN [value EXCEPT !.kind = "numpy." \o value.dtype]
    ELSE [value EXCEPT !.kind = "numpy.ndarray"]

unwrap_outer_only(value) ==
  IF value.kind = "Tensor" THEN unwrap_tensor(value) ELSE value

\* async_execution_context._unwrap
unwrap(value) ==
  IF value.kind = "Tensor" THEN unwrap_tensor(value)
  ELSE IF value.kind = "list"
    THEN [value EXCEPT !.items = [i \in DOMAIN value.items |-> unwrap_tensor(value.items[i])]]
  ELSE value

Unwrap(v) ==
  /\ applied = NoApplied
  /\ applied' = [fn |-> "_unwrap", arg |-> v, result |-> unwrap(v)]
  /\ UNCHANGED <<variables, models, transferVars, typeVars, metricVars>>

\* the caller takes the result; the next call can be made
Consume ==
  /\ applied # NoApplied
  /\ applied' = NoApplied
  /\ UNCHANGED <<variables, models, transferVars, typeVars, metricVars>>

InitPure ==
  /\ variables = <<>>
  /\ models = <<>>
  /\ graph_stack = <<0>>
  /\ model_fn = [kind |-> "Model", trainable |-> <<>>, non_trainable |-> <<>>]
  /\ TransferIdle /\ TypeIdle /\ PureIdle /\ MetricIdle

NextPure ==
  \/ \E struct \in TffInputs : FromTffResult(struct)
  \/ \E x \in PyValues : IsRetryableError(x)
  \/ \E v \in UnwrapInputs : Unwrap(v)
  \/ Consume

SpecPure == InitPure /\ [][NextPure]_vars

\* C3: from_tff_result of a structure with the fields trainable and
\* non_trainable returns a container whose trainable list is the values of
\* s.trainable in declared order and whose non_trainable list is the values
\* of s.non_trainable in declared order, the names dropped.
C3_FromTffResultKeepsValues ==
  (applied.fn = "from_tff_result" /\ applied.arg.type = "Struct") =>
    /\ applied.result.status = "ok"
    /\ applied.result.value.trainable = applied.arg.trainable.values
    /\ applied.result.value.non_trainable = applied.arg.non_trainable.values

\* a result with two named trainable values that differ
C3_Witness ==
  /\ applied.fn = "from_tff_result"
  /\ applied.arg.type = "Struct"
  /\ Len(applied.arg.trainable.values) = 2
  /\ applied.arg.trainable.values[1] # applied.arg.trainable.values[2]
  /\ applied.arg.trainable.names = <<"kernel", "">>
  /\ applied.result.status = "ok"

\* C8: the retry classifier answers TRUE exactly for instances of the
\* retryable error kind and answers FALSE, without raising, for everything
\* else: other exceptions, an integer, a string, None.
C8_RetryableExactly ==
  applied.fn = "_is_retryable_error" =>
    /\ applied.result.status = "ok"
    /\ applied.result.value = (applied.arg.type \in {"RetryableError", "RetryableErrorSubclass"})

\* a TypeError has been classified as not retryable
C8_WitnessTypeError ==
  /\ applied.fn = "_is_retryable_error"
  /\ applied.arg.type = "TypeError"
  /\ applied.result.value = FALSE

\* C9: unwrapping a single-element tensor gives the host scalar of its dtype
\* with its value; unwrapping a longer tensor gives a host array with the
\* same elements; unwrapping a list of single-element tensors gives a list of
\* the same length whose i-th element is the host scalar of the i-th tensor.
C9_UnwrapToHostValues ==
  applied.fn = "_unwrap" =>
    LET v == applied.arg
        r == applied.result
    IN /\ (v.kind = "Tensor" /\ Len(v.elems) = 1) =>
            r.kind = "numpy." \o v.dtype /\ r.elems = v.elems
       /\ (v.kind = "Tensor" /\ Len(v.elems) > 1) =>
            r.kind = "numpy.ndarray" /\ r.elems = v.elems /\ r.dtype = v.dtype
       /\ v.kind = "list" =>
            /\ r.kind = "list"
            /\ Len(r.items) = Len(v.items)
            /\ \A i \in DOMAIN v.items :
                 /\ r.items[i].kind = "numpy." \o v.items[i].dtype
                 /\ r.items[i].elems = v.items[i].elems

\* a list of two different scalar tensors has been unwrapped
C9_WitnessList ==
  /\ applied.fn = "_unwrap"
  /\ applied.arg.kind = "list"
  /\ Len(applied.arg.items) = 2
  /\ applied.arg.items[1] # applied.arg.items[2]
  /\ applied.result.kind = "list"

----------------------------------------------------------------------------
(* The Model interface and its concrete subclasses *)

\* number of abstract members a concrete class may leave out
MaxOmitted == 1

\* the members of Model declared abstract
AbstractMethods ==
  { "trainable_variables", "non_trainable_variables", "local_variables", "input_spec",
    "forward_pass", "predict_on_batch", "report_local_outputs",
    "federated_output_computation", "report_local_unfinalized_metrics",
    "metric_finalizers" }

MetricNames == {"loss", "num_examples"}

\* a user-defined subclass: the abstract members it overrides, and the metric
\* names its two metric methods use
ConcreteClasses ==
  { [implements |-> AbstractMethods \ omitted, unfinalized_keys |-> ku, finalizer_keys |-> kf] :
      omitted \in { o \in SUBSET AbstractMethods : Cardinality(o) <= MaxOmitted },
      ku \in SUBSET MetricNames,
      kf \in SUBSET MetricNames }

\* the abstract members declared with abc.abstractmethod only, without those
\* declared with abc.abstractproperty
abstractmethods_without_properties(cls) ==
  { "forward_pass", "predict_on_batch", "report_local_outputs",
    "report_local_unfinalized_metrics", "metric_finalizers" } \ cls.implements

\* abc.ABCMeta: the abstract members a class has not overridden
abstractmethods(cls) == AbstractMethods \ cls.implements

\* instance.report_local_unfinalized_metrics()
report_local_unfinalized_metrics(instance) ==
  [k \in instance.cls.unfinalized_keys |-> instance.totals[k]]

\* instance.metric_finalizers()
metric_finalizers(instance) ==
  [k \in instance.cls.finalizer_keys |-> "finalizer"]

\* cls(): ABCMeta refuses to instantiate a class with abstract members left.
\* One instance is constructed in a run.
Instantiate(cls) ==
  /\ concrete = <<>>
  /\ IF abstractmethods(cls) # {}
       THEN /\ built' = [cls |-> cls, status |-> "TypeError"]
            /\ UNCHANGED concrete
       ELSE /\ built' = [cls |-> cls, status |-> "ok"]
            /\ concrete' = <<[cls |-> cls, batches |-> 0,
                              totals |-> [k \in cls.unfinalized_keys |-> 0]]>>
  /\ UNCHANGED <<variables, models, transferVars, typeVars, pureVars>>

\* instance.forward_pass(batch): the metric accumulators take in the batch
ForwardPassOnInstance ==
  /\ concrete # <<>>
  /\ concrete[1].batches < MaxUpdates
  /\ concrete' = <<[concrete[1] EXCEPT !.batches = @ + 1,
                                       !.totals = [k \in DOMAIN @ |-> @[k] + 1]]>>
  /\ UNCHANGED <<variables, models, transferVars, typeVars, pureVars, built>>

InitModel ==
  /\ variables = <<>>
  /\ models = <<>>
  /\ graph_stack = <<0>>
  /\ model_fn = [kind |-> "Model", trainable |-> <<>>, non_trainable |-> <<>>]
  /\ TransferIdle /\ TypeIdle /\ PureIdle /\ MetricIdle

NextModel ==
  \/ \E cls \in ConcreteClasses : Instantiate(cls)
  \/ ForwardPassOnInstance

SpecModel == InitModel /\ [][NextModel]_vars

\* C10: on every concrete model that can be constructed, in every state
\* forward_pass calls lead to, report_local_unfinalized_metrics() and
\* metric_finalizers() have the same set of keys.
C10_SameMetricKeys ==
  concrete # <<>> =>
    DOMAIN report_local_unfinalized_metrics(concrete[1]) = DOMAIN metric_finalizers(concrete[1])

\* a construction of a concrete model class has been attempted
Constructed == built.status # "none"

\* the required operations the constructed class does not implement
Omitted == AbstractMethods \ built.cls.implements

\* construction fails exactly when an operation is omitted
FailsIffOmits ==
  /\ (built.status = "TypeError") <=> (Omitted # {})
  /\ (built.status = "ok") <=> (Omitted = {})
  /\ (built.status = "ok") <=> (concrete # <<>>)

\* C11 as stated: the Model interface lists nine required operations, and
\* constructing a concrete model fails at construction time if and only if
\* the class omits at least one of them; a class implementing all of them
\* constructs successfully.
C11_NineRequiredOperations ==
  Constructed => (Cardinality(AbstractMethods) = 9 /\ FailsIffOmits)

\* C11 amended: the Model interface lists ten required operations, and
\* constructing a concrete model fails at construction time if and only if
\* the class omits at least one of them; a class implementing all ten
\* constructs successfully.
C11_TenRequiredOperations ==
  Constructed => (Cardinality(AbstractMethods) = 10 /\ FailsIffOmits)

\* a class implementing nine of the operations, the omitted one an abstract
\* property, was refused at construction
C11_WitnessOmitsOne ==
  /\ built.status = "TypeError"
  /\ Cardinality(built.cls.implements) = 9
  /\ Omitted = {"input_spec"}

----------------------------------------------------------------------------
(* The frame of assign_weights_to *)

\* this step is a call w.assign_weights_to(x)
AssignStep == outcome'.op = "assign_weights_to" /\ weights # <<>>

\* the variables of `ids` hold after the step what they held before
Kept(ids) == \A i \in DOMAIN ids : variables'[ids[i]] = variables[ids[i]]

\* after the step, position i of `ids` holds the i-th value of `elems` for
\* every position i below k, and its old value from k on
WrittenBelow(ids, elems, k) ==
  \A i \in DOMAIN ids :
    IF i < k
      THEN variables'[ids[i]] = [variables[ids[i]] EXCEPT !.value = Read(variables, elems[i]).value]
      ELSE variables'[ids[i]] = variables[ids[i]]

\* position i of the container does not fit position i of the target
Misfit(ids, elems, i) ==
  \/ Read(variables, elems[i]).dtype # variables[ids[i]].dtype
  \/ Read(variables, elems[i]).shape # variables[ids[i]].shape

\* the first position of two equally long lists at which they do not fit,
\* one past the end when they fit everywhere
FirstMisfit(ids, elems) ==
  IF \E i \in DOMAIN ids : Misfit(ids, elems, i)
    THEN CHOOSE i \in DOMAIN ids :
           Misfit(ids, elems, i) /\ \A j \in 1..(i - 1) : ~Misfit(ids, elems, j)
    ELSE Len(ids) + 1

\* every variable that is not a trainable or non-trainable variable of the
\* target (its local variables, every variable of the other model), the
\* models and the container are as before
OutsideKept(target) ==
  /\ \A id \in DOMAIN variables :
       (id \notin Range(target.trainable_variables) \cup Range(target.non_trainable_variables))
         => variables'[id] = variables[id]
  /\ DOMAIN variables' = DOMAIN variables
  /\ models' = models
  /\ weights' = weights

\* a successful call: every position written, the values read through the
\* container unchanged
SuccessFrame(target, w) ==
  /\ Len(target.trainable_variables) = Len(w.trainable)
  /\ Len(target.non_trainable_variables) = Len(w.non_trainable)
  /\ WrittenBelow(target.trainable_variables, w.trainable, Len(w.trainable) + 1)
  /\ WrittenBelow(target.non_trainable_variables, w.non_trainable, Len(w.non_trainable) + 1)
  /\ \A i \in DOMAIN w.trainable : Read(variables', w.trainable[i]) = Read(variables, w.trainable[i])
  /\ \A i \in DOMAIN w.non_trainable :
       Read(variables', w.non_trainable[i]) = Read(variables, w.non_trainable[i])
  /\ OutsideKept(target)

\* C12 as stated: assign_weights_to is all-or-nothing. A call that fails, on
\* the type contract or on a count or shape mismatch in either collection,
\* leaves every variable as it was before the call; a call that succeeds
\* writes position i of the target's trainable and non-trainable variables
\* with the container's i-th value and leaves the local variables and the
\* container unchanged.
C12_AllOrNothing ==
  [][AssignStep =>
       IF outcome'.status = "ok"
         THEN SuccessFrame(models[outcome'.arg.ref], weights[1])
         ELSE variables' = variables /\ models' = models /\ weights' = weights]_vars

\* C12 amended: the type is validated before any variable is touched, and a
\* call failing on the type contract or on a count mismatch in the trainable
\* collection leaves every variable as it was. A call failing later is not
\* rolled back: the trainable positions before the first one that does not
\* fit have the container's values, and when the trainable collection fits
\* all of it is written and so are the non-trainable positions before the
\* first misfit (none on a count mismatch); every other position keeps its
\* value. Local variables, other models' variables and the container are
\* never changed, and a successful call writes every position.
C12_FailureKeepsWrittenPrefix ==
  [][AssignStep =>
       IF outcome'.status = "ok"
         THEN SuccessFrame(models[outcome'.arg.ref], weights[1])
       ELSE IF outcome'.status = "TypeError"
         THEN /\ ~check_type(TypeOf(models, outcome'.arg), ModelOrKeras)
              /\ variables' = variables /\ models' = models /\ weights' = weights
       ELSE LET target == models[outcome'.arg.ref]
                w == weights[1]
                tv == target.trainable_variables
                ntv == target.non_trainable_variables
            IN /\ outcome'.status = "ValueError"
               /\ OutsideKept(target)
               /\ IF Len(tv) # Len(w.trainable)
                    THEN Kept(tv) /\ Kept(ntv)
                  ELSE IF FirstMisfit(tv, w.trainable) <= Len(tv)
                    THEN WrittenBelow(tv, w.trainable, FirstMisfit(tv, w.trainable)) /\ Kept(ntv)
                  ELSE /\ WrittenBelow(tv, w.trainable, Len(tv) + 1)
                       /\ IF Len(ntv) # Len(w.non_trainable)
                            THEN Kept(ntv)
                            ELSE /\ FirstMisfit(ntv, w.non_trainable) <= Len(ntv)
                                 /\ WrittenBelow(ntv, w.non_trainable,
                                                 FirstMisfit(ntv, w.non_trainable))]_vars

\* a call on the second model has failed on its non-trainable collection with
\* no training step taken, and a trainable variable of the target, created
\* with value 0, holds the container's value
C12_WitnessPartialWrite ==
  /\ outcome.op = "assign_weights_to"
  /\ outcome.status = "ValueError"
  /\ outcome.arg.ref = 2
  /\ updates = 0
  /\ weights # <<>>
  /\ Len(weights[1].trainable) = Len(models[2].trainable_variables)
  /\ FirstMisfit(models[2].trainable_variables, weights[1].trainable)
       > Len(models[2].trainable_variables)
  /\ \E i \in DOMAIN models[2].trainable_variables :
       variables[models[2].trainable_variables[i]].value = 1

====
